---- MODULE Spec2Model ----
(***************************************************************************)
(* State-machine model of the vintedpics front-end.                        *)
(*                                                                         *)
(*   SpecLive   src/components/LiveAssistant.tsx: the live voice session   *)
(*              (startSession, its connection callbacks, cleanup, the      *)
(*              Start Conversation / End Call buttons, unmount) with its   *)
(*              microphone path (onaudioprocess).                          *)
(*   SpecAudio  the same session with its playback path (onmessage, the    *)
(*              'ended' listener, the output clock).  The two paths share  *)
(*              no variable: neither reads or writes what the other        *)
(*              writes, so each is explored with the session's life alone. *)
(*   SpecVideo  src/components/VintedStudio.tsx, VeoStudio.generateVideo.  *)
(*   SpecStudio src/App.tsx with the panel it renders, VintedStudio.       *)
(*                                                                         *)
(* Every call of startSession allocates the objects of one "start": an     *)
(* input and an output AudioContext, a MediaStream, a live session and,    *)
(* once the session opens, a ScriptProcessorNode with its microphone       *)
(* source.  The objects of start i carry the index i; the React refs hold  *)
(* an index, or 0 for null.                                                *)
(***************************************************************************)
EXTENDS Integers, Sequences, FiniteSets, TLC

\* ------------------------------------------------------------------ bounds
MaxStarts == 2      \* calls of startSession
MaxFrames == 2      \* audio messages received from the server
MaxMic == 2         \* buffers delivered to onaudioprocess
MaxTime == 1        \* ticks of the output clock
MaxDur == 1         \* longest audio frame, in ticks
MaxRuns == 2        \* calls of generateVideo
MaxPolls == 2       \* polls of one video operation
MaxImages == 2      \* distinct photos uploaded to VintedStudio
MaxPresets == 2     \* background prompts chosen in VintedStudio

Starts == 1..MaxStarts
Durations == 1..MaxDur

Max(a, b) == IF a >= b THEN a ELSE b

VARIABLES
  \* LiveAssistant: React state
  mounted, connected, isTalking, error,
  \* LiveAssistant: refs (0 is null)
  audioContextRef, inputContextRef, streamRef, processorRef, sessionRef,
  sourceRef, nextStartTime, sources,
  \* the objects of each start
  nStarts, pc, inCtx, outCtx, now, stream, sess, opened, resolved, thenQ,
  procCtx, procDisc, srcDisc, captured, sent,
  \* the audio frames received, in arrival order
  frames,
  \* VeoStudio: React state
  vPrompt, uploadImage, vLoading, videoUrl, vStatus,
  \* VeoStudio: the calls of generateVideo and the environment
  apiKey, nRuns, vpc, operation, waits, queries, outcome,
  \* VintedStudio: React state and the request in flight
  originalImage, generatedImage, sPrompt, sLoading, quality, request,
  \* App: the components on screen
  screen

liveVars == <<mounted, connected, isTalking, error, audioContextRef,
              inputContextRef, streamRef, processorRef, sessionRef, sourceRef,
              nextStartTime, sources, nStarts, pc, inCtx, outCtx, now, stream,
              sess, opened, resolved, thenQ, procCtx, procDisc, srcDisc,
              captured, sent, frames>>

videoVars == <<vPrompt, uploadImage, vLoading, videoUrl, vStatus, apiKey,
               nRuns, vpc, operation, waits, queries, outcome>>

studioVars == <<originalImage, generatedImage, sPrompt, sLoading, quality,
                request, screen>>

vars == <<liveVars, videoVars, studioVars>>

\* What the handlers of one component leave alone.
notLive == <<videoVars, studioVars>>
notVideo == <<liveVars, studioVars>>
notStudio == <<liveVars, videoVars>>

\* ------------------------------------------------------------- LiveAssistant

InitLive ==
  /\ mounted = TRUE
  /\ connected = FALSE
  /\ isTalking = FALSE
  /\ error = FALSE
  /\ audioContextRef = 0
  /\ inputContextRef = 0
  /\ streamRef = 0
  /\ processorRef = 0
  /\ sessionRef = 0
  /\ sourceRef = 0
  /\ nextStartTime = 0
  /\ sources = {}
  /\ nStarts = 0
  /\ pc = [i \in Starts |-> "idle"]
  /\ inCtx = [i \in Starts |-> "none"]
  /\ outCtx = [i \in Starts |-> "none"]
  /\ now = [i \in Starts |-> 0]
  /\ stream = [i \in Starts |-> "none"]
  /\ sess = [i \in Starts |-> "none"]
  /\ opened = [i \in Starts |-> FALSE]
  /\ resolved = [i \in Starts |-> FALSE]
  /\ thenQ = [i \in Starts |-> <<>>]
  /\ procCtx = [i \in Starts |-> 0]
  /\ procDisc = [i \in Starts |-> FALSE]
  /\ srcDisc = [i \in Starts |-> FALSE]
  /\ captured = [i \in Starts |-> 0]
  /\ sent = [i \in Starts |-> <<>>]
  /\ frames = <<>>

\* session.close() on the resolved session: the socket starts closing.
SessionClose(ss, i) ==
  IF ss[i] = "open" THEN [ss EXCEPT ![i] = "closing"] ELSE ss

\* One callback registered with sessionPromise.then, run on the session.
RunThen(st, i, cb) ==
  IF cb.op = "close"
    THEN [st EXCEPT !.sess = SessionClose(st.sess, i)]
    ELSE [st EXCEPT !.sent = [st.sent EXCEPT ![i] = Append(@, cb.n)]]

RECURSIVE RunAll(_, _, _)
RunAll(st, i, q) ==
  IF q = <<>> THEN st ELSE RunAll(RunThen(st, i, Head(q)), i, Tail(q))

\* A then that does not wait for the promise.
ThenEager(st, i, cb) == RunThen(st, i, cb)

\* sessionPromise.then(cb): cb runs at once on a resolved promise and is
\* queued, in registration order, on a pending one.
Then(st, i, cb) ==
  IF resolved[i]
    THEN RunThen(st, i, cb)
    ELSE [st EXCEPT !.q = [st.q EXCEPT ![i] = Append(@, cb)]]

\* sessionRef.current?.close()
CleanupSession(ss) ==
  LET st0 == [sess |-> ss, sent |-> sent, q |-> thenQ]
  IN IF sessionRef = 0 THEN st0
     ELSE Then(st0, sessionRef, [op |-> "close", n |-> 0])

\* A frame whose source is no longer referenced keeps only what its 'ended'
\* event reads: its context.
Stopped(fm) ==
  [st |-> "stopped", ctx |-> fm.ctx, dur |-> 0, intr |-> FALSE, start |-> 0,
   pre |-> FALSE]

EndedFrame ==
  [st |-> "ended", ctx |-> 0, dur |-> 0, intr |-> FALSE, start |-> 0,
   pre |-> FALSE]

\* s.stop() for every source of the set srcs.
StopSources(fr, srcs) ==
  [f \in DOMAIN fr |-> IF f \in srcs THEN Stopped(fr[f]) ELSE fr[f]]

\* cleanup(), run on the session states ss (the caller may have changed them).
Cleanup(ss) ==
  LET st == CleanupSession(ss) IN
  /\ sess' = st.sess
  /\ sent' = st.sent
  /\ thenQ' = st.q
  /\ stream' = IF streamRef = 0 THEN stream
               ELSE [stream EXCEPT ![streamRef] = "stopped"]
  /\ procDisc' = IF processorRef = 0 THEN procDisc
                 ELSE [procDisc EXCEPT ![processorRef] = TRUE]
  /\ srcDisc' = IF sourceRef = 0 THEN srcDisc
                ELSE [srcDisc EXCEPT ![sourceRef] = TRUE]
  /\ inCtx' = IF inputContextRef = 0 THEN inCtx
              ELSE [inCtx EXCEPT ![inputContextRef] = "closed"]
  /\ outCtx' = IF audioContextRef = 0 THEN outCtx
               ELSE [outCtx EXCEPT ![audioContextRef] = "closed"]
  /\ frames' = StopSources(frames, sources)
  /\ sources' = {}
  /\ connected' = FALSE
  /\ isTalking' = FALSE

\* Start Conversation, up to the await of getUserMedia.
StartSession ==
  /\ mounted /\ ~connected
  /\ nStarts < MaxStarts
  /\ LET i == nStarts + 1 IN
     /\ nStarts' = i
     /\ error' = FALSE
     /\ inCtx' = [inCtx EXCEPT ![i] = "running"]
     /\ outCtx' = [outCtx EXCEPT ![i] = "running"]
     /\ inputContextRef' = i
     /\ audioContextRef' = i
     /\ pc' = [pc EXCEPT ![i] = "awaitMic"]
  /\ UNCHANGED <<notLive, mounted, connected, isTalking, streamRef,
                 processorRef, sessionRef, sourceRef, nextStartTime, sources,
                 now, stream, sess, opened, resolved, thenQ, procCtx,
                 procDisc, srcDisc, captured, sent, frames>>

\* getUserMedia resolved: the stream is kept, connect is issued and
\* sessionRef is assigned.
MicGranted(i) ==
  /\ pc[i] = "awaitMic"
  /\ pc' = [pc EXCEPT ![i] = "done"]
  /\ stream' = [stream EXCEPT ![i] = "live"]
  /\ streamRef' = i
  /\ sess' = [sess EXCEPT ![i] = "connecting"]
  /\ sessionRef' = i
  /\ UNCHANGED <<notLive, mounted, connected, isTalking, error,
                 audioContextRef, inputContextRef, processorRef, sourceRef,
                 nextStartTime, sources, nStarts, inCtx, outCtx, now, opened,
                 resolved, thenQ, procCtx, procDisc, srcDisc, captured, sent,
                 frames>>

\* getUserMedia rejected: the catch block.
MicDenied(i) ==
  /\ pc[i] = "awaitMic"
  /\ pc' = [pc EXCEPT ![i] = "failed"]
  /\ error' = TRUE
  /\ Cleanup(sess)
  /\ UNCHANGED <<notLive, mounted, audioContextRef, inputContextRef,
                 streamRef, processorRef, sessionRef, sourceRef,
                 nextStartTime, nStarts, now, opened, resolved, procCtx,
                 captured>>

\* onopen of session i.
OnOpen(i) ==
  /\ sess[i] = "connecting"
  /\ sess' = [sess EXCEPT ![i] = "open"]
  /\ opened' = [opened EXCEPT ![i] = TRUE]
  /\ connected' = TRUE
  /\ procCtx' = [procCtx EXCEPT ![i] = inputContextRef]
  /\ sourceRef' = i
  /\ processorRef' = i
  /\ UNCHANGED <<notLive, mounted, isTalking, error, audioContextRef,
                 inputContextRef, streamRef, sessionRef, nextStartTime,
                 sources, nStarts, pc, inCtx, outCtx, now, stream, resolved,
                 thenQ, procDisc, srcDisc, captured, sent, frames>>

\* The connect promise of session i resolves, after its open event; the
\* callbacks waiting on it run in order.
ResolveConnect(i) ==
  /\ opened[i] /\ ~resolved[i]
  /\ resolved' = [resolved EXCEPT ![i] = TRUE]
  /\ LET st == RunAll([sess |-> sess, sent |-> sent, q |-> thenQ], i, thenQ[i])
     IN /\ sess' = st.sess
        /\ sent' = st.sent
        /\ thenQ' = [thenQ EXCEPT ![i] = <<>>]
  /\ UNCHANGED <<notLive, mounted, connected, isTalking, error,
                 audioContextRef, inputContextRef, streamRef, processorRef,
                 sessionRef, sourceRef, nextStartTime, sources, nStarts, pc,
                 inCtx, outCtx, now, stream, opened, procCtx, procDisc,
                 srcDisc, captured, frames>>

\* An onerror that reports the error and does not clean up.
OnErrorNoCleanup(i) ==
  /\ sess[i] \in {"connecting", "open"}
  /\ error' = TRUE
  /\ sess' = [sess EXCEPT ![i] = "errored"]
  /\ UNCHANGED <<notLive, mounted, connected, isTalking, audioContextRef,
                 inputContextRef, streamRef, processorRef, sessionRef,
                 sourceRef, nextStartTime, sources, nStarts, pc, inCtx,
                 outCtx, now, stream, opened, resolved, thenQ, procCtx,
                 procDisc, srcDisc, captured, sent, frames>>

\* onerror of session i: the socket is lost; its close event follows.
OnError(i) ==
  /\ sess[i] \in {"connecting", "open"}
  /\ error' = TRUE
  /\ Cleanup([sess EXCEPT ![i] = "errored"])
  /\ UNCHANGED <<notLive, mounted, audioContextRef, inputContextRef,
                 streamRef, processorRef, sessionRef, sourceRef,
                 nextStartTime, nStarts, pc, now, opened, resolved, procCtx,
                 captured>>

\* onclose of session i: closed by the server (from "open"), after the
\* client's close() or after an error.
OnClose(i) ==
  /\ sess[i] \in {"open", "closing", "errored"}
  /\ sess' = [sess EXCEPT ![i] = "closed"]
  /\ connected' = FALSE
  /\ UNCHANGED <<notLive, mounted, isTalking, error, audioContextRef,
                 inputContextRef, streamRef, processorRef, sessionRef,
                 sourceRef, nextStartTime, sources, nStarts, pc, inCtx,
                 outCtx, now, stream, opened, resolved, thenQ, procCtx,
                 procDisc, srcDisc, captured, sent, frames>>

RECURSIVE SumTo(_, _)
SumTo(f, n) == IF n = 0 THEN 0 ELSE f[n] + SumTo(f, n - 1)

\* The processor of start i fires: it is connected to the destination of a
\* running input context.
Capturing(i) ==
  /\ procCtx[i] # 0
  /\ ~procDisc[i]
  /\ inCtx[procCtx[i]] = "running"

\* processor.onaudioprocess of start i: the buffer is encoded and handed to
\* sessionPromise.then.
OnAudioProcess(i) ==
  /\ Capturing(i)
  /\ SumTo(captured, MaxStarts) < MaxMic
  /\ captured' = [captured EXCEPT ![i] = @ + 1]
  /\ LET st == Then([sess |-> sess, sent |-> sent, q |-> thenQ], i,
                    [op |-> "send", n |-> captured[i] + 1])
     IN /\ sess' = st.sess
        /\ sent' = st.sent
        /\ thenQ' = st.q
  /\ UNCHANGED <<notLive, mounted, connected, isTalking, error,
                 audioContextRef, inputContextRef, streamRef, processorRef,
                 sessionRef, sourceRef, nextStartTime, sources, nStarts, pc,
                 inCtx, outCtx, now, stream, opened, resolved, procCtx,
                 procDisc, srcDisc, frames>>

\* The branch of onmessage for serverContent.interrupted, with the sources
\* srcs scheduled.  A frame still being decoded is marked (pre, history) as
\* received before an interruption.
Interrupt(fr, srcs) ==
  /\ frames' = [f \in DOMAIN fr |->
                  IF fr[f].st = "decoding"
                    THEN [fr[f] EXCEPT !.pre = TRUE]
                    ELSE StopSources(fr, srcs)[f]]
  /\ sources' = {}
  /\ nextStartTime' = 0
  /\ isTalking' = FALSE

\* onmessage of session i, up to the await of decodeAudioData (a message
\* with audio) or to its end (a message without).
OnMessage(i, audio, intr, d) ==
  /\ sess[i] = "open"
  /\ audio \/ intr
  /\ IF audio
       THEN /\ Len(frames) < MaxFrames
            /\ isTalking' = TRUE
            /\ nextStartTime' = Max(nextStartTime, now[audioContextRef])
            /\ frames' = Append(frames,
                  [st |-> "decoding", ctx |-> audioContextRef, dur |-> d,
                   intr |-> intr, start |-> 0, pre |-> FALSE])
            /\ UNCHANGED sources
       ELSE Interrupt(frames, sources)
  /\ UNCHANGED <<notLive, mounted, connected, error, audioContextRef,
                 inputContextRef, streamRef, processorRef, sessionRef,
                 sourceRef, nStarts, pc, inCtx, outCtx, now, stream, sess,
                 opened, resolved, thenQ, procCtx, procDisc, srcDisc,
                 captured, sent>>

\* source.start(when) on context c: a time in the past starts at once.
StartAt(c, when) == Max(when, now[c])

\* The promise of decodeAudioData for frame f settles, at any time after the
\* call.
DecodeSettles(f) ==
  /\ f \in DOMAIN frames
  /\ frames[f].st = "decoding"

\* onmessage after the await: the decoded buffer of frame f is scheduled,
\* then the interrupted flag of the same message is handled.
DecodeDone(f) ==
  /\ DecodeSettles(f)
  /\ LET fr == [frames EXCEPT ![f].st = "started",
                              ![f].intr = FALSE,
                              ![f].start =
                                 StartAt(frames[f].ctx, nextStartTime)]
     IN IF frames[f].intr
          THEN Interrupt(fr, sources \cup {f})
          ELSE /\ frames' = fr
               /\ nextStartTime' = nextStartTime + frames[f].dur
               /\ sources' = sources \cup {f}
               /\ UNCHANGED isTalking
  /\ UNCHANGED <<notLive, mounted, connected, error, audioContextRef,
                 inputContextRef, streamRef, processorRef, sessionRef,
                 sourceRef, nStarts, pc, inCtx, outCtx, now, stream, sess,
                 opened, resolved, thenQ, procCtx, procDisc, srcDisc,
                 captured, sent>>

\* Frame f has been started and has neither been stopped nor played out.
Scheduled(f) ==
  /\ frames[f].st = "started"
  /\ outCtx[frames[f].ctx] = "running"
  /\ now[frames[f].ctx] < frames[f].start + frames[f].dur

\* The 'ended' listener of the source of frame f, stopped or played out.
Ended(f) ==
  /\ f \in DOMAIN frames
  /\ frames[f].st \in {"started", "stopped"}
  /\ outCtx[frames[f].ctx] = "running"
  /\ frames[f].st = "stopped"
       \/ now[frames[f].ctx] >= frames[f].start + frames[f].dur
  /\ frames' = [frames EXCEPT ![f] = EndedFrame]
  /\ sources' = sources \ {f}
  /\ isTalking' = IF sources \ {f} = {} THEN FALSE ELSE isTalking
  /\ UNCHANGED <<notLive, mounted, connected, error, audioContextRef,
                 inputContextRef, streamRef, processorRef, sessionRef,
                 sourceRef, nextStartTime, nStarts, pc, inCtx, outCtx, now,
                 stream, sess, opened, resolved, thenQ, procCtx, procDisc,
                 srcDisc, captured, sent>>

\* The clocks of the running output contexts advance together.
Tick ==
  /\ \E c \in Starts : outCtx[c] = "running"
  /\ \A c \in Starts : outCtx[c] = "running" => now[c] < MaxTime
  /\ now' = [c \in Starts |-> IF outCtx[c] = "running" THEN now[c] + 1
                                                        ELSE now[c]]
  /\ UNCHANGED <<notLive, mounted, connected, isTalking, error,
                 audioContextRef, inputContextRef, streamRef, processorRef,
                 sessionRef, sourceRef, nextStartTime, sources, nStarts, pc,
                 inCtx, outCtx, stream, sess, opened, resolved, thenQ,
                 procCtx, procDisc, srcDisc, captured, sent, frames>>

\* The End Call button, rendered while connected.
EndCall ==
  /\ mounted /\ connected
  /\ Cleanup(sess)
  /\ UNCHANGED <<notLive, mounted, error, audioContextRef, inputContextRef,
                 streamRef, processorRef, sessionRef, sourceRef,
                 nextStartTime, nStarts, pc, now, opened, resolved, procCtx,
                 captured>>

\* The effect's cleanup function, run when the component unmounts.
Unmount ==
  /\ mounted
  /\ mounted' = FALSE
  /\ Cleanup(sess)
  /\ UNCHANGED <<notLive, error, audioContextRef, inputContextRef, streamRef,
                 processorRef, sessionRef, sourceRef, nextStartTime, nStarts,
                 pc, now, opened, resolved, procCtx, captured>>

\* The steps of the session's life: start, connect, open, close, teardown.
Lifecycle ==
  \/ StartSession
  \/ \E i \in Starts : MicGranted(i)
  \/ \E i \in Starts : MicDenied(i)
  \/ \E i \in Starts : OnOpen(i)
  \/ \E i \in Starts : ResolveConnect(i)
  \/ \E i \in Starts : OnError(i)
  \/ \E i \in Starts : OnClose(i)
  \/ EndCall
  \/ Unmount

\* The session with its microphone path.
NextLive ==
  \/ Lifecycle
  \/ \E i \in Starts : OnAudioProcess(i)

\* The session with its playback path.
NextAudio ==
  \/ Lifecycle
  \/ \E i \in Starts, audio \in BOOLEAN, intr \in BOOLEAN, d \in Durations :
        OnMessage(i, audio, intr, d)
  \/ \E f \in 1..MaxFrames : DecodeDone(f)
  \/ \E f \in 1..MaxFrames : Ended(f)
  \/ Tick

\* ----------------------------------------------------------------- VeoStudio

Runs == 1..MaxRuns

NoOperation == [done |-> FALSE, uri |-> FALSE, set |-> FALSE]

InitVideo ==
  /\ vPrompt = FALSE
  /\ uploadImage = FALSE
  /\ vLoading = FALSE
  /\ videoUrl = 0
  /\ vStatus = ""
  /\ apiKey \in BOOLEAN
  /\ nRuns = 0
  /\ vpc = [r \in Runs |-> "idle"]
  /\ operation = [r \in Runs |-> NoOperation]
  /\ waits = [r \in Runs |-> 0]
  /\ queries = [r \in Runs |-> 0]
  /\ outcome = [r \in Runs |-> "none"]

\* The prompt textarea: empty or not.
SetVideoPrompt(b) ==
  /\ vPrompt' = b
  /\ UNCHANGED <<notVideo, uploadImage, vLoading, videoUrl, vStatus, apiKey,
                 nRuns, vpc, operation, waits, queries, outcome>>

HandleImageUpload ==
  /\ uploadImage' = TRUE
  /\ UNCHANGED <<notVideo, vPrompt, vLoading, videoUrl, vStatus, apiKey,
                 nRuns, vpc, operation, waits, queries, outcome>>

\* The Generate Video button, up to the await of checkApiKey.
GenerateVideo ==
  /\ ~vLoading /\ vPrompt
  /\ nRuns < MaxRuns
  /\ nRuns' = nRuns + 1
  /\ vpc' = [vpc EXCEPT ![nRuns + 1] = "checkKey"]
  /\ UNCHANGED <<notVideo, vPrompt, uploadImage, vLoading, videoUrl, vStatus,
                 apiKey, operation, waits, queries, outcome>>

\* checkApiKey returned: without a key the call ends, with one the request
\* to generateVideos is issued.
CheckApiKeyDone(r, hasKey) ==
  /\ vpc[r] = "checkKey"
  /\ IF hasKey
       THEN /\ vLoading' = TRUE
            /\ videoUrl' = 0
            /\ vStatus' = IF uploadImage
                             THEN "Uploading image & generating video..."
                             ELSE "Generating video from text..."
            /\ vpc' = [vpc EXCEPT ![r] = "generate"]
            /\ UNCHANGED outcome
       ELSE /\ vpc' = [vpc EXCEPT ![r] = "done"]
            /\ outcome' = [outcome EXCEPT ![r] = "noKey"]
            /\ UNCHANGED <<vLoading, videoUrl, vStatus>>
  /\ UNCHANGED <<notVideo, vPrompt, uploadImage, apiKey, nRuns, operation,
                 waits, queries>>

\* The catch and finally blocks of run r.
Finally(r, how) ==
  /\ vLoading' = FALSE
  /\ vStatus' = ""
  /\ vpc' = [vpc EXCEPT ![r] = "done"]
  /\ outcome' = [outcome EXCEPT ![r] = how]

\* A loop that polls at most once.
PollOnce(r, op) ==
  IF ~op.done /\ waits[r] = 0
    THEN /\ vStatus' = "Rendering video... this may take a minute."
         /\ waits' = [waits EXCEPT ![r] = @ + 1]
         /\ vpc' = [vpc EXCEPT ![r] = "wait"]
         /\ UNCHANGED <<vLoading, outcome>>
    ELSE /\ vStatus' = "Downloading video..."
         /\ vpc' = [vpc EXCEPT ![r] = "fetch"]
         /\ UNCHANGED <<vLoading, waits, outcome>>

\* Run r holds operation op: the head of the polling loop and, past it, the
\* test of the download link.
Poll(r, op) ==
  IF ~op.done
    THEN /\ vStatus' = "Rendering video... this may take a minute."
         /\ waits' = [waits EXCEPT ![r] = @ + 1]
         /\ vpc' = [vpc EXCEPT ![r] = "wait"]
         /\ UNCHANGED <<vLoading, outcome>>
    ELSE IF op.uri /\ apiKey
      THEN /\ vStatus' = "Downloading video..."
           /\ vpc' = [vpc EXCEPT ![r] = "fetch"]
           /\ UNCHANGED <<vLoading, waits, outcome>>
      ELSE /\ Finally(r, "failed")
           /\ UNCHANGED waits

\* What the service may answer to run r: an operation that is done, with or
\* without a video, or one that is not (while the run may still poll).
Answers(r) ==
  {[done |-> d, uri |-> u, set |-> TRUE] :
     d \in (IF waits[r] < MaxPolls THEN BOOLEAN ELSE {TRUE}), u \in BOOLEAN}
  \ {[done |-> FALSE, uri |-> TRUE, set |-> TRUE]}

\* generateVideos returned op.
GenerateVideosDone(r, op) ==
  /\ vpc[r] = "generate"
  /\ operation' = [operation EXCEPT ![r] = op]
  /\ Poll(r, op)
  /\ UNCHANGED <<notVideo, vPrompt, uploadImage, videoUrl, apiKey, nRuns,
                 queries>>

\* The 5-second timer of run r fires: the operation is queried again.
TimerFires(r) ==
  /\ vpc[r] = "wait"
  /\ vpc' = [vpc EXCEPT ![r] = "query"]
  /\ queries' = [queries EXCEPT ![r] = @ + 1]
  /\ UNCHANGED <<notVideo, vPrompt, uploadImage, vLoading, videoUrl, vStatus,
                 apiKey, nRuns, operation, waits, outcome>>

\* getVideosOperation returned op.
GetVideosOperationDone(r, op) ==
  /\ vpc[r] = "query"
  /\ operation' = [operation EXCEPT ![r] = op]
  /\ Poll(r, op)
  /\ UNCHANGED <<notVideo, vPrompt, uploadImage, videoUrl, apiKey, nRuns,
                 queries>>

\* fetch of the download link returned.
FetchDone(r) ==
  /\ vpc[r] = "fetch"
  /\ vpc' = [vpc EXCEPT ![r] = "blob"]
  /\ UNCHANGED <<notVideo, vPrompt, uploadImage, vLoading, videoUrl, vStatus,
                 apiKey, nRuns, operation, waits, queries, outcome>>

\* response.blob() returned: the video is shown.
BlobDone(r) ==
  /\ vpc[r] = "blob"
  /\ videoUrl' = r
  /\ Finally(r, "shown")
  /\ UNCHANGED <<notVideo, vPrompt, uploadImage, apiKey, nRuns, operation,
                 waits, queries>>

\* An awaited request of run r throws.
RequestThrows(r) ==
  /\ vpc[r] \in {"generate", "query", "fetch", "blob"}
  /\ Finally(r, "failed")
  /\ UNCHANGED <<notVideo, vPrompt, uploadImage, videoUrl, apiKey, nRuns,
                 operation, waits, queries>>

NextVideo ==
  \/ \E b \in BOOLEAN : SetVideoPrompt(b)
  \/ HandleImageUpload
  \/ GenerateVideo
  \/ \E r \in Runs, hasKey \in BOOLEAN : CheckApiKeyDone(r, hasKey)
  \/ \E r \in Runs : \E op \in Answers(r) : GenerateVideosDone(r, op)
  \/ \E r \in Runs : TimerFires(r)
  \/ \E r \in Runs : \E op \in Answers(r) : GetVideosOperationDone(r, op)
  \/ \E r \in Runs : FetchDone(r)
  \/ \E r \in Runs : BlobDone(r)
  \/ \E r \in Runs : RequestThrows(r)

\* ----------------------------------------------------- App and VintedStudio

\* The values of AppView.
AppView ==
  {"vinted_studio", "veo_video", "live_assistant", "smart_chat", "image_gen"}

\* The panel component of each view.
PanelOf ==
  [v \in AppView |->
     CASE v = "vinted_studio" -> "VintedStudio"
       [] v = "veo_video" -> "VeoStudio"
       [] v = "live_assistant" -> "LiveAssistant"
       [] v = "smart_chat" -> "SmartChat"
       [] v = "image_gen" -> "ImageGenerator"]

\* The components a component renders, in any of its states.
Renders(c) == IF c = "App" THEN {"VintedStudio"} ELSE {}

\* The components on screen under the components cs.
RECURSIVE Rendered(_)
Rendered(cs) ==
  LET more == cs \cup UNION {Renders(c) : c \in cs}
  IN IF more = cs THEN cs ELSE Rendered(more)

\* The views whose panel is on screen.
ViewsOffered == {v \in AppView : PanelOf[v] \in screen}

Qualities == {"1K", "2K", "4K"}

InitStudio ==
  /\ originalImage = 0
  /\ generatedImage = 0
  /\ sPrompt = 0
  /\ sLoading = FALSE
  /\ quality = "1K"
  /\ request = 0
  /\ screen = Rendered({"App"})

\* A photo is chosen and read.
HandleFileUpload(img) ==
  /\ originalImage' = img
  /\ generatedImage' = 0
  /\ UNCHANGED <<notStudio, sPrompt, sLoading, quality, request, screen>>

\* The Verwijderen button.
RemoveImage ==
  /\ originalImage # 0
  /\ originalImage' = 0
  /\ generatedImage' = 0
  /\ UNCHANGED <<notStudio, sPrompt, sLoading, quality, request, screen>>

\* The textarea or a preset button: prompt 0 is the initial text.
SetPrompt(p) ==
  /\ sPrompt' = p
  /\ UNCHANGED <<notStudio, originalImage, generatedImage, sLoading, quality,
                 request, screen>>

SetQuality(q) ==
  /\ quality' = q
  /\ UNCHANGED <<notStudio, originalImage, generatedImage, sPrompt, sLoading,
                 request, screen>>

\* The generate button, up to the await of generateContent.
HandleGenerate ==
  /\ originalImage # 0 /\ ~sLoading
  /\ apiKey
  /\ sLoading' = TRUE
  /\ generatedImage' = 0
  /\ request' = originalImage
  /\ UNCHANGED <<notStudio, originalImage, sPrompt, quality, screen>>

\* generateContent returned, with or without an image part.
GenerateResponds(hasImage) ==
  /\ request # 0
  /\ generatedImage' = IF hasImage THEN request ELSE generatedImage
  /\ sLoading' = FALSE
  /\ request' = 0
  /\ UNCHANGED <<notStudio, originalImage, sPrompt, quality, screen>>

\* generateContent threw.
GenerateFails ==
  /\ request # 0
  /\ sLoading' = FALSE
  /\ request' = 0
  /\ UNCHANGED <<notStudio, originalImage, generatedImage, sPrompt, quality,
                 screen>>

\* The Nog een maken button.
MakeAnother ==
  /\ generatedImage # 0
  /\ generatedImage' = 0
  /\ UNCHANGED <<notStudio, originalImage, sPrompt, sLoading, quality,
                 request, screen>>

NextStudio ==
  \/ \E img \in 1..MaxImages : HandleFileUpload(img)
  \/ RemoveImage
  \/ \E p \in 0..MaxPresets : SetPrompt(p)
  \/ \E q \in Qualities : SetQuality(q)
  \/ HandleGenerate
  \/ \E b \in BOOLEAN : GenerateResponds(b)
  \/ GenerateFails
  \/ MakeAnother

\* ------------------------------------------------------------ specifications

Init == InitLive /\ InitVideo /\ InitStudio

\* The session is explored with the API key set: it reads the key in no test.
InitSession == Init /\ apiKey = TRUE

SpecLive == InitSession /\ [][NextLive]_vars

SpecAudio == InitSession /\ [][NextAudio]_vars

SpecVideo == Init /\ [][NextVideo]_vars

SpecStudio == Init /\ [][NextStudio]_vars

\* ------------------------------------------------------------------ claims

\* Session i has been connected and is neither closing nor closed.
Active(i) == sess[i] \in {"connecting", "open"}

\* C1: at any time at most one live session is active (connect issued and
\* not yet closed), whatever the clicks and callbacks.
C1_AtMostOneActiveSession ==
  Cardinality({i \in Starts : Active(i)}) <= 1

\* C2: once an interruption has been handled, no frame received before it
\* (its decoding may have been pending then) is scheduled or playing.
C2_InterruptionSilences ==
  \A f \in DOMAIN frames : frames[f].pre => ~Scheduled(f)

\* The playback interval of a started frame.
Begin(f) == frames[f].start
Finish(f) == frames[f].start + frames[f].dur

\* C3: the playback intervals of two frames scheduled on one output context
\* never overlap (each frame starts where the one before it ends, or later).
C3_NoOverlap ==
  \A f, g \in DOMAIN frames :
    (/\ f # g
     /\ frames[f].st = "started" /\ frames[g].st = "started"
     /\ frames[f].ctx = frames[g].ctx)
    => (Finish(f) <= Begin(g) \/ Finish(g) <= Begin(f))

\* cleanup() runs: End Call, a connection error, or a failed start.
CleanupRuns ==
  \/ EndCall
  \/ \E i \in Starts : OnError(i)
  \/ \E i \in Starts : MicDenied(i)

\* The close of session i is waiting for the connect promise.
CloseRequested(i) == \E j \in DOMAIN thenQ[i] : thenQ[i][j].op = "close"

\* Nothing of the live session is left running.
TornDown ==
  /\ \A i \in Starts : Active(i) => CloseRequested(i)
  /\ \A i \in Starts : stream[i] # "live"
  /\ \A i \in Starts : procCtx[i] # 0 => procDisc[i] /\ srcDisc[i]
  /\ \A i \in Starts : inCtx[i] # "running" /\ outCtx[i] # "running"
  /\ \A f \in DOMAIN frames : frames[f].st # "started"
  /\ sources = {}
  /\ ~connected
  /\ ~isTalking

\* C4: after cleanup has run, in any state, the session's close has been
\* requested, every microphone track is stopped, processor and microphone
\* source are disconnected, the audio contexts are closed, every scheduled
\* source is stopped, the source set is empty, connected and isTalking are
\* false.
C4_CleanupTearsDown == [][CleanupRuns => TornDown']_vars

\* The buffers 1..n in capture order.
UpTo(n) == [j \in 1..n |-> j]

\* The buffers waiting in the then-queue q, in order.
RECURSIVE QueuedFrames(_)
QueuedFrames(q) ==
  IF q = <<>> THEN <<>>
  ELSE IF Head(q).op = "send" THEN <<Head(q).n>> \o QueuedFrames(Tail(q))
  ELSE QueuedFrames(Tail(q))

\* C5: every buffer delivered to onaudioprocess is sent to its session
\* exactly once and in capture order (the buffers sent, followed by those
\* waiting for the connect promise, are buffers 1..captured, and none waits
\* once the promise has resolved), and nothing is sent before the open event
\* and the resolution of the connect promise.
C5_FramesForwardedOnceInOrder ==
  \A i \in Starts :
    /\ sent[i] \o QueuedFrames(thenQ[i]) = UpTo(captured[i])
    /\ resolved[i] => sent[i] = UpTo(captured[i])
    /\ sent[i] # <<>> => opened[i] /\ resolved[i]

\* C5 witness: two buffers were captured and sent to a session in order.
C5_Witness ==
  \E i \in Starts : resolved[i] /\ captured[i] >= 2 /\ Len(sent[i]) >= 2

\* Run r reached the polling loop and no request of it threw.
Polling(r) == operation[r].set /\ outcome[r] # "failed"

\* C6: generateVideo queries the operation once per 5-second wait and goes
\* on waiting for as long as the operation is not done; the download is
\* fetched only for an operation reported done, and videoUrl is set only
\* after that operation returned a video URI and the download completed.
C6_PollUntilDone ==
  \A r \in Runs :
    /\ queries[r] = IF vpc[r] = "wait" THEN waits[r] - 1 ELSE waits[r]
    /\ (Polling(r) /\ ~operation[r].done) => vpc[r] \in {"wait", "query"}
    /\ vpc[r] \in {"fetch", "blob"} => operation[r].done /\ operation[r].uri
    /\ videoUrl = r =>
         operation[r].done /\ operation[r].uri /\ outcome[r] = "shown"

\* C6 witness: a video is shown after its operation was polled twice.
C6_Witness ==
  \E r \in Runs : videoUrl = r /\ queries[r] >= 2

\* C7: from the root component the user can get the panel of every AppView
\* value on screen.  No handler changes what App renders, so a panel that is
\* not on screen in one state is on screen in none.
C7_AllPanelsOffered == ViewsOffered = AppView

\* No step of startSession, of a connection or of a close is pending.
Quiescent ==
  \A i \in Starts :
    /\ pc[i] # "awaitMic"
    /\ sess[i] \notin {"connecting", "closing", "errored"}
    /\ opened[i] => resolved[i]

\* C8: after the component unmounted, once every pending step of
\* startSession has run, no session is open and every microphone track is
\* stopped.
C8_ReleasedAfterUnmount ==
  (~mounted /\ Quiescent) =>
    \A i \in Starts : ~Active(i) /\ stream[i] # "live"

\* C9: whenever connected is false, the microphone of a session that was
\* opened is no longer captured: its track is stopped and its processor
\* delivers no buffer.
C9_NoCaptureWhenDisconnected ==
  ~connected =>
    \A i \in Starts : opened[i] => stream[i] # "live" /\ ~Capturing(i)

\* C10: isTalking is true whenever a source is scheduled or playing, and is
\* false once every source has ended.
C10_TalkingIffScheduled ==
  /\ (\E f \in DOMAIN frames : Scheduled(f)) => isTalking
  /\ (frames # <<>> /\ \A f \in DOMAIN frames : frames[f].st = "ended")
       => ~isTalking

\* C11: two frames of one session received in order, with no interruption
\* handled since the first arrived, are scheduled in that order: the earlier
\* frame starts before the later one, whichever decode completes first.
C11_PlayedInArrivalOrder ==
  \A f, g \in DOMAIN frames :
    (/\ f < g
     /\ frames[f].st = "started" /\ frames[g].st = "started"
     /\ frames[f].ctx = frames[g].ctx
     /\ ~frames[f].pre)
    => Begin(f) < Begin(g)

\* Frame f is the first frame of its session to be scheduled: every other
\* frame belongs to another output context, or arrived later and is still
\* being decoded (a frame that ended is of no known context and counts as
\* one of the same session).
FirstOfSession(f) ==
  \A g \in DOMAIN frames \ {f} :
    frames[g].ctx \in {0, frames[f].ctx}
    => (g > f /\ frames[g].st = "decoding")

\* C12: the first frame of a session is scheduled at the current time of its
\* output context and not later, whatever playback cursor an earlier
\* session left behind.  (The clock only advances, so a frame scheduled at
\* the current time never starts later than the clock reads.)
C12_FirstFrameNotDelayed ==
  \A f \in DOMAIN frames :
    (frames[f].st = "started" /\ FirstOfSession(f))
    => Begin(f) <= now[frames[f].ctx]

\* The live session fails: startSession throws, or the connection reports
\* an error.
Fails ==
  \/ \E i \in Starts : MicDenied(i)
  \/ \E i \in Starts : OnError(i)

\* cleanup has run on what the refs hold.
RefsReleased ==
  /\ sessionRef # 0 /\ Active(sessionRef) => CloseRequested(sessionRef)
  /\ streamRef # 0 => stream[streamRef] # "live"
  /\ processorRef # 0 => procDisc[processorRef]
  /\ sourceRef # 0 => srcDisc[sourceRef]
  /\ inputContextRef # 0 => inCtx[inputContextRef] # "running"
  /\ audioContextRef # 0 => outCtx[audioContextRef] # "running"
  /\ sources = {}
  /\ ~isTalking

\* C13: a failure of the live session (startSession throws, or onerror)
\* leaves error set, cleanup run on what the refs hold and connected false;
\* and error is reset only by a call of startSession.
C13_FailureShowsError ==
  [][/\ Fails => (error' /\ ~connected' /\ RefsReleased')
     /\ (error /\ ~error') => StartSession]_vars

\* C13 witness: an open session reported an error while its only frame was
\* scheduled (the cursor is past it, so no interruption stopped it); the
\* error is shown, the frame stopped, the panel disconnected.
C13_Witness ==
  \E i \in Starts :
    /\ sess[i] = "errored" /\ opened[i] /\ error /\ ~connected
    /\ Len(frames) = 1 /\ frames[1].st = "stopped" /\ frames[1].ctx = i
    /\ nextStartTime >= 1

====
